---- MODULE Spec2Model ----
(***************************************************************************)
(* The Application Catalog BFF (src/bff/app): the tool CRUD endpoints, the *)
(* logo endpoints and the access-event log, as request handlers that run   *)
(* concurrently (FastAPI runs "def" endpoints on a thread pool), each on   *)
(* its own SQLAlchemy session against one PostgreSQL database at the       *)
(* default READ COMMITTED isolation level.                                 *)
(*                                                                         *)
(* One action is one handler statement that talks to the database (or to   *)
(* the network); the statements of different requests interleave.          *)
(* Strings whose characters matter (titles, categories, content types) are *)
(* sequences of one-character strings; Optional values are sequences of    *)
(* length 0 (None / NULL) or 1.                                            *)
(***************************************************************************)
EXTENDS Integers, Sequences, FiniteSets, TLC

VARIABLES
    tools,        \* table onboarding_tools, committed rows: id -> row
    next_id,      \* the serial sequence behind onboarding_tools.id
    tool_access,  \* table tool_access, committed rows, in insertion order
    teams,        \* table teams, committed rows: id -> row
    next_team_id, \* the serial sequence behind teams.id
    now,          \* the database server's clock (func.now())
    pc,           \* per worker: the statement its request is at
    call,         \* per worker: the validated request being handled
    local,        \* per worker: the handler's local variables and its session
    txn,          \* per worker: None, or the start time of the transaction its
                  \* session holds open
    resp,         \* per worker: the HTTP response of the finished request
    snap          \* history: the committed tool table as it was when the
                  \* request of the observed client arrived

vars == <<tools, next_id, tool_access, teams, next_team_id, now, pc, call, local, txn, resp, snap>>

-----------------------------------------------------------------------------
(* Bounds *)

\* the worker that serves the observed client, and the workers that serve
\* the clients racing each other
Client == "client"
Procs == {"p1", "p2"}
Workers == {Client} \cup Procs

MaxId == 2
MaxBatch == 2
MaxEvents == 2
MaxClock == 1

-----------------------------------------------------------------------------
(* Values *)

None == <<>>
Some(x) == <<x>>

TitleA == <<"a">>
TitleB == <<"b">>
CatC == <<"c">>
ImagePrefix == <<"i", "m", "a", "g", "e", "/">>
ImagePng == ImagePrefix \o <<"p", "n", "g">>
ImageGif == ImagePrefix \o <<"g", "i", "f">>
TextHtml == <<"t", "e", "x", "t", "/", "h", "t", "m", "l">>

\* str.startswith
startswith(s, prefix) ==
    /\ Len(s) >= Len(prefix)
    /\ SubSeq(s, 1, Len(prefix)) = prefix

IsSpace(c) == c \in {" ", "\t", "\n"}

\* str.strip
RECURSIVE lstrip(_)
lstrip(s) == IF s # <<>> /\ IsSpace(Head(s)) THEN lstrip(Tail(s)) ELSE s

RECURSIVE rstrip(_)
rstrip(s) ==
    IF s # <<>> /\ IsSpace(s[Len(s)]) THEN rstrip(SubSeq(s, 1, Len(s) - 1)) ELSE s

strip(s) == rstrip(lstrip(s))

-----------------------------------------------------------------------------
(* schemas.py: request bodies *)

StatusLiterals == {"Active", "Deprecated", "Planned"}

\* JSON bodies a client may send for a tool: a JSON object is a record that
\* holds only the keys the client wrote.
RawToolPayloads ==
    { [title |-> TitleA, category |-> CatC],
      [title |-> TitleB, category |-> CatC],
      [title |-> <<" ", "a">>, category |-> <<"c", " ">>,
       status |-> "Planned", sort_order |-> 1, is_featured |-> TRUE],
      [title |-> <<" ">>, category |-> CatC],
      [title |-> TitleA] }

\* the two plainest of them
PlainBodies ==
    { [title |-> TitleA, category |-> CatC],
      [title |-> TitleB, category |-> CatC] }

ALLOWED_TAGS ==
    { <<"p">>,
      <<"s", "t", "r", "o", "n", "g">>,
      <<"e", "m">>,
      <<"u", "l">>,
      <<"o", "l">>,
      <<"l", "i">>,
      <<"b", "r">>,
      <<"a">>,
      <<"c", "o", "d", "e">>,
      <<"p", "r", "e">>,
      <<"b", "l", "o", "c", "k", "q", "u", "o", "t", "e">>,
      <<"h", "1">>,
      <<"h", "2">>,
      <<"h", "3">>,
      <<"h", "4">> }

\* the characters of a tag name
NameChars ==
    { "a", "b", "c", "d", "e", "f", "g", "h", "i", "j", "k", "l", "m", "n", "o",
      "p", "q", "r", "s", "t", "u", "v", "w", "x", "y", "z",
      "1", "2", "3", "4", "5", "6" }

\* the character references the modelled descriptions use
Entities == { <<"l", "t", ";">>, <<"g", "t", ";">>, <<"a", "m", "p", ";">> }

\* the place of the first c in s, or 0
find(s, c) ==
    IF \E i \in DOMAIN s : s[i] = c
    THEN CHOOSE i \in DOMAIN s : s[i] = c /\ \A j \in 1..(i - 1) : s[j] # c
    ELSE 0

\* the run of name characters s starts with
RECURSIVE name_of(_)
name_of(s) ==
    IF s # <<>> /\ Head(s) \in NameChars THEN <<Head(s)>> \o name_of(Tail(s)) ELSE <<>>

\* bleach.clean(value, tags=ALLOWED_TAGS, attributes={"a": ["href", "title"]},
\* strip=True) on text whose tags carry no attributes: the start and end
\* tags of an element that is not allowed are removed and its content stays;
\* a "<" that opens no tag, a ">" and a "&" that starts no character
\* reference are written as character references
RECURSIVE bleach_clean(_)
bleach_clean(text) ==
    IF text = <<>> THEN <<>>
    ELSE LET c == Head(text)
             rest == Tail(text)
         IN IF c = "<"
            THEN LET stop == find(rest, ">")
                     inner == SubSeq(rest, 1, stop - 1)
                     end == inner # <<>> /\ Head(inner) = "/"
                     name == name_of(IF end THEN Tail(inner) ELSE inner)
                 IN IF stop = 0 \/ name = <<>>
                    THEN <<"&", "l", "t", ";">> \o bleach_clean(rest)
                    ELSE (IF name \in ALLOWED_TAGS
                          THEN <<"<">> \o (IF end THEN <<"/">> ELSE <<>>) \o name \o <<">">>
                          ELSE <<>>)
                         \o bleach_clean(SubSeq(rest, stop + 1, Len(rest)))
            ELSE IF c = ">"
            THEN <<"&", "g", "t", ";">> \o bleach_clean(rest)
            ELSE IF c = "&" /\ ~\E e \in Entities : startswith(rest, e)
            THEN <<"&", "a", "m", "p", ";">> \o bleach_clean(rest)
            ELSE <<c>> \o bleach_clean(rest)

\* ToolBase.sanitize_description
sanitize_description(value) ==
    IF value = None THEN value ELSE Some(bleach_clean(value[1]))

\* ToolBase.validate_required_text
validate_required_text(value) == strip(value)

\* ToolBase: whether pydantic accepts the body
ToolBase_valid(raw) ==
    /\ {"title", "category"} \subseteq DOMAIN raw
    /\ validate_required_text(raw.title) # <<>>
    /\ validate_required_text(raw.category) # <<>>
    /\ "status" \in DOMAIN raw => raw.status \in StatusLiterals

\* ToolBase(...).model_dump(): every field, the omitted ones at their defaults
model_dump(raw) ==
    [ title |-> validate_required_text(raw.title),
      description |-> IF "description" \in DOMAIN raw
                      THEN sanitize_description(Some(raw.description))
                      ELSE None,
      category |-> validate_required_text(raw.category),
      status |-> IF "status" \in DOMAIN raw THEN raw.status ELSE "Active",
      sort_order |-> IF "sort_order" \in DOMAIN raw THEN raw.sort_order ELSE 0,
      is_featured |-> IF "is_featured" \in DOMAIN raw THEN raw.is_featured ELSE FALSE ]

WritableFields == {"title", "description", "category", "status", "sort_order", "is_featured"}

-----------------------------------------------------------------------------
(* models.py and the database *)

\* OnboardingTool(**tool.model_dump()) as the INSERT stores it
OnboardingTool(id, dump, created_at) ==
    [ id |-> id,
      title |-> dump.title,
      description |-> dump.description,
      category |-> dump.category,
      status |-> dump.status,
      sort_order |-> dump.sort_order,
      is_featured |-> dump.is_featured,
      logo_data |-> None,
      logo_content_type |-> None,
      created_at |-> created_at ]

Rows(table) == {table[i] : i \in DOMAIN table}

\* rows flushed by worker p's open transaction and not yet committed
Flushed(p) == local[p].flushed

\* what a SELECT of worker p sees under READ COMMITTED: the committed rows
\* and the rows its own transaction has written
Visible(p) == Rows(tools) \cup Flushed(p)

\* query.filter(...).first(): None, or one matching row
first(rows) == IF rows = {} THEN None ELSE Some(CHOOSE r \in rows : TRUE)

\* .order_by(...): the rows as a sequence, each row before the rows it is
\* before; "before" is the set of the pairs <<x, y>> with x ordered before y
RECURSIVE order_by(_, _)
order_by(rows, before) ==
    IF rows = {} THEN <<>>
    ELSE LET r == CHOOSE x \in rows : \A y \in rows \ {x} : <<x, y>> \in before
         IN <<r>> \o order_by(rows \ {r}, before)

\* the table without its unique index
UniqueViolation_no_index(p, id, t) == FALSE

\* Column(String(200), unique=True): the index entry an INSERT or UPDATE of
\* title t for row id is refused by
UniqueViolation(p, id, t) ==
    \E r \in Visible(p) : r.title = t /\ r.id # id

\* ... and the uncommitted entry of another transaction it has to wait for
WaitsFor(p, id, t) ==
    {q \in Workers \ {p} : \E r \in Flushed(q) : r.title = t /\ r.id # id}

-----------------------------------------------------------------------------
(* Requests and responses *)

NoLocal == [record |-> None, flushed |-> {}, pending |-> None, i |-> 1,
            response |-> None, logo |-> None]
NoResp == [status |-> 0, detail |-> <<>>]
NoCall == [op |-> "none"]

HTTPException(status, detail) == [status |-> status, detail |-> detail]
OK == [status |-> 200, detail |-> <<>>]
\* a 200 response with its JSON body
JSON(body) == [status |-> 200, detail |-> <<>>, body |-> body]
\* an exception no handler catches
ServerError == [status |-> 500, detail |-> <<"Internal Server Error">>]
\* FastAPI's answer to a body pydantic rejects
Unprocessable == [status |-> 422, detail |-> <<"validation error">>]

ToolNotFound == HTTPException(404, <<"Tool not found.">>)
TitleMustBeUnique == HTTPException(400, <<"Title must be unique.">>)
TitleAlreadyExists(title) == HTTPException(400, <<"Title already exists: ", title>>)

\* Session autobegin: the first statement opens the transaction
Begin(p) == IF txn[p] = None THEN Some(now) ELSE txn[p]

\* the request ends: get_db closes the session, which rolls back whatever
\* the transaction had not committed
Finish(p, r) ==
    /\ pc' = [pc EXCEPT ![p] = "done"]
    /\ resp' = [resp EXCEPT ![p] = r]
    /\ local' = [local EXCEPT ![p] = NoLocal]
    /\ txn' = [txn EXCEPT ![p] = None]

\* the handler goes on to its next statement inside the open transaction
Goto(p, label, loc) ==
    /\ pc' = [pc EXCEPT ![p] = label]
    /\ local' = [local EXCEPT ![p] = loc]
    /\ txn' = [txn EXCEPT ![p] = Begin(p)]
    /\ UNCHANGED resp

\* a request arrives at an idle worker and passes validation
Accept(p, c, label) ==
    /\ pc[p] = "idle"
    /\ pc' = [pc EXCEPT ![p] = label]
    /\ call' = [call EXCEPT ![p] = c]
    /\ snap' = IF p = Client THEN tools ELSE snap
    /\ UNCHANGED <<teams, next_team_id, tools, next_id, tool_access, now, local, txn, resp>>

\* a request arrives and is answered at once
Answer(p, c, r) ==
    /\ pc[p] = "idle"
    /\ pc' = [pc EXCEPT ![p] = "done"]
    /\ call' = [call EXCEPT ![p] = c]
    /\ resp' = [resp EXCEPT ![p] = r]
    /\ snap' = IF p = Client THEN tools ELSE snap
    /\ UNCHANGED <<teams, next_team_id, tools, next_id, tool_access, now, local, txn>>

Init ==
    /\ tools = <<>>
    /\ next_id = 1
    /\ tool_access = <<>>
    /\ teams = <<>>
    /\ next_team_id = 1
    /\ now = 0
    /\ pc = [p \in Workers |-> "idle"]
    /\ call = [p \in Workers |-> NoCall]
    /\ local = [p \in Workers |-> NoLocal]
    /\ txn = [p \in Workers |-> None]
    /\ resp = [p \in Workers |-> NoResp]
    /\ snap = <<>>

-----------------------------------------------------------------------------
(* POST /tools *)

create_tool_request(p, bodies) ==
    \E raw \in bodies :
        IF ToolBase_valid(raw)
        THEN Accept(p, [op |-> "create_tool", body |-> raw, tool |-> model_dump(raw)],
                    "create_check")
        ELSE Answer(p, [op |-> "create_tool", body |-> raw], Unprocessable)

\* existing = db.query(OnboardingTool).filter(title == tool.title).first()
create_tool_check(p) ==
    /\ pc[p] = "create_check"
    /\ LET existing == first({r \in Visible(p) : r.title = call[p].tool.title})
       IN IF existing # None
          THEN Finish(p, TitleMustBeUnique)
          ELSE Goto(p, "create_commit", local[p])
    /\ UNCHANGED <<teams, next_team_id, tools, next_id, tool_access, now, call, snap>>

\* db.add(record); db.commit(); db.refresh(record); return record
create_tool_commit(p) ==
    /\ pc[p] = "create_commit"
    /\ next_id <= MaxId
    /\ WaitsFor(p, next_id, call[p].tool.title) = {}
    /\ next_id' = next_id + 1
    /\ IF UniqueViolation(p, next_id, call[p].tool.title)
       THEN /\ Finish(p, ServerError)
            /\ UNCHANGED tools
       ELSE /\ tools' = (next_id :> OnboardingTool(next_id, call[p].tool, txn[p][1])) @@ tools
            /\ Finish(p, OK)
    /\ UNCHANGED <<teams, next_team_id, tool_access, now, call, snap>>

-----------------------------------------------------------------------------
(* POST /tools/bulk *)

RawBulkItems ==
    { [title |-> TitleA, category |-> CatC],
      [title |-> TitleB, category |-> CatC],
      [title |-> <<" ">>, category |-> CatC] }

\* {"tools": [...]} bodies of at most MaxBatch elements
RawBatches(items) == UNION {[1..n -> items] : n \in 0..MaxBatch}

bulk_create_tools_request(p, items) ==
    \E raws \in RawBatches(items) :
        IF \A i \in DOMAIN raws : ToolBase_valid(raws[i])
        THEN Accept(p, [op |-> "bulk_create_tools", body |-> raws,
                        tools |-> [i \in DOMAIN raws |-> model_dump(raws[i])]], "bulk_loop")
        ELSE Answer(p, [op |-> "bulk_create_tools", body |-> raws], Unprocessable)

\* the workers whose uncommitted rows the INSERT of worker p's pending
\* record has to wait for
PendingWaitsFor(p) ==
    IF local[p].pending = None THEN {}
    ELSE WaitsFor(p, next_id, local[p].pending[1].title)

\* Session autoflush: the pending record, if any, is INSERTed before the next
\* query and before the commit. TRUE when the INSERT raises IntegrityError.
FlushFails(p) ==
    /\ local[p].pending # None
    /\ UniqueViolation(p, next_id, local[p].pending[1].title)

\* a session that never flushes before a query
AfterFlush_no_autoflush(p) == Flushed(p)

\* the rows of worker p's transaction once the pending record is flushed
AfterFlush(p) ==
    IF local[p].pending = None THEN Flushed(p)
    ELSE Flushed(p) \cup {OnboardingTool(next_id, local[p].pending[1], txn[p][1])}

FlushIds(p) ==
    /\ local[p].pending # None => next_id <= MaxId
    /\ next_id' = IF local[p].pending = None THEN next_id ELSE next_id + 1

\* COMMIT: the rows of the transaction join the committed table
Committed(table, rows) ==
    [id \in DOMAIN table \cup {r.id : r \in rows} |->
        IF id \in DOMAIN table THEN table[id] ELSE CHOOSE r \in rows : r.id = id]

\* a session whose close commits
Closed_commit(p) == Committed(tools, AfterFlush(p))

\* get_db's "finally: db.close()" after the handler raised: the transaction
\* is rolled back, the committed table stays as it is
Closed(p) == tools

\* one iteration of "for tool in payload.tools": the query (with its
\* autoflush), the raise, db.add(record)
bulk_create_tools_loop(p) ==
    /\ pc[p] = "bulk_loop"
    /\ local[p].i <= Len(call[p].tools)
    /\ PendingWaitsFor(p) = {}
    /\ FlushIds(p)
    /\ LET tool == call[p].tools[local[p].i]
           existing == first({r \in Rows(tools) \cup AfterFlush(p) : r.title = tool.title})
       IN IF FlushFails(p)
          THEN /\ Finish(p, ServerError)
               /\ UNCHANGED tools
          ELSE IF existing # None
          THEN /\ Finish(p, TitleAlreadyExists(tool.title))
               /\ tools' = Closed(p)
          ELSE /\ Goto(p, "bulk_loop", [local[p] EXCEPT !.flushed = AfterFlush(p),
                                                        !.pending = Some(tool),
                                                        !.i = @ + 1])
               /\ UNCHANGED tools
    /\ UNCHANGED <<teams, next_team_id, tool_access, now, call, snap>>

\* db.commit(); db.refresh(record) for each; return created
bulk_create_tools_commit(p) ==
    /\ pc[p] = "bulk_loop"
    /\ local[p].i > Len(call[p].tools)
    /\ PendingWaitsFor(p) = {}
    /\ FlushIds(p)
    /\ IF FlushFails(p)
       THEN /\ Finish(p, ServerError)
            /\ UNCHANGED tools
       ELSE /\ tools' = Committed(tools, AfterFlush(p))
            /\ Finish(p, OK)
    /\ UNCHANGED <<teams, next_team_id, tool_access, now, call, snap>>

-----------------------------------------------------------------------------
(* GET /tools *)

\* the characters of the modelled strings, by ascending code point
Chars == <<" ", "%", "A", "B", "C", "D", "\\", "_", "a", "b", "c", "d">>

ord(c) == CHOOSE i \in DOMAIN Chars : Chars[i] = c

\* s < t for two strings, as the column's ORDER BY compares them
RECURSIVE str_lt(_, _)
str_lt(s, t) ==
    IF t = <<>> THEN FALSE
    ELSE IF s = <<>> THEN TRUE
    ELSE IF Head(s) # Head(t) THEN ord(Head(s)) < ord(Head(t))
    ELSE str_lt(Tail(s), Tail(t))

lower_char(c) ==
    CASE c = "A" -> "a"
      [] c = "B" -> "b"
      [] c = "C" -> "c"
      [] c = "D" -> "d"
      [] OTHER -> c

lower(s) == [i \in DOMAIN s |-> lower_char(s[i])]

\* SQL's "s LIKE pattern": % matches any run of characters, _ any one
\* character, and a backslash takes the next character literally
RECURSIVE like(_, _)
like(s, pattern) ==
    IF pattern = <<>> THEN s = <<>>
    ELSE IF Head(pattern) = "%"
    THEN like(s, Tail(pattern)) \/ (s # <<>> /\ like(Tail(s), pattern))
    ELSE IF Head(pattern) = "_"
    THEN s # <<>> /\ like(Tail(s), Tail(pattern))
    ELSE IF Head(pattern) = "\\" /\ Len(pattern) >= 2
    THEN s # <<>> /\ Head(s) = pattern[2] /\ like(Tail(s), Tail(Tail(pattern)))
    ELSE s # <<>> /\ Head(s) = Head(pattern) /\ like(Tail(s), Tail(pattern))

\* Column.ilike(pattern): LIKE without regard to case
ilike(s, pattern) == like(lower(s), lower(pattern))

\* a Python string or None taken as a condition
truthy(opt) == opt # None /\ opt[1] # <<>>

\* _tool_query(db, search, category, status): the rows the query selects
\* among the rows the session sees
tool_query(rows, search, category, status) ==
    {r \in rows :
        /\ truthy(search) =>
              LET like_value == <<"%">> \o search[1] \o <<"%">>
              IN ilike(r.title, like_value) \/ ilike(r.category, like_value)
        /\ truthy(category) => r.category = category[1]
        \* "if status:" (the modelled values of status are whole words)
        /\ status # None => r.status = status[1]}

\* an ORDER BY that sorts sort_order descending
tool_order_sort_desc(rows) ==
    {xy \in rows \X rows :
        \/ xy[1].is_featured /\ ~xy[2].is_featured
        \/ /\ xy[1].is_featured = xy[2].is_featured
           /\ \/ xy[1].sort_order > xy[2].sort_order
              \/ /\ xy[1].sort_order = xy[2].sort_order
                 /\ str_lt(xy[1].title, xy[2].title)}

\* order_by(is_featured.desc(), sort_order.asc(), title.asc()): the pairs
\* <<x, y>> of rows with x before y (TRUE sorts after FALSE, so first here)
tool_order(rows) ==
    {xy \in rows \X rows :
        \/ xy[1].is_featured /\ ~xy[2].is_featured
        \/ /\ xy[1].is_featured = xy[2].is_featured
           /\ \/ xy[1].sort_order < xy[2].sort_order
              \/ /\ xy[1].sort_order = xy[2].sort_order
                 /\ str_lt(xy[1].title, xy[2].title)}

\* the query strings of the modelled requests
Searches ==
    { None, Some(<<>>), Some(<<"a">>), Some(<<"A", "b">>), Some(<<"c">>),
      Some(<<"_">>), Some(<<"%">>), Some(<<"\\">>) }
CategoryFilters == {None, Some(<<"C">>), Some(<<"c", "d">>)}
StatusFilters == {None, Some("Active"), Some("Planned")}

\* query = _tool_query(...); tools = query.order_by(...).all(); return tools
list_tools(p) ==
    \E search \in Searches, category \in CategoryFilters, status \in StatusFilters :
        LET rows == tool_query(Visible(p), search, category, status)
        IN Answer(p, [op |-> "list_tools", search |-> search,
                      category |-> category, status |-> status],
                  JSON(order_by(rows, tool_order(rows))))

-----------------------------------------------------------------------------
(* GET /tools/{tool_id} *)

get_tool(p) ==
    \E id \in 1..MaxId :
        Answer(p, [op |-> "get_tool", tool_id |-> id],
               IF first({r \in Rows(tools) : r.id = id}) = None THEN ToolNotFound ELSE OK)

-----------------------------------------------------------------------------
(* PUT /tools/{tool_id} and PUT /tools/by-title/{title} *)

\* a check that forgets to leave out the record being updated
duplicate_of_any(p, title, id) == first({r \in Visible(p) : r.title = title})

\* db.query(OnboardingTool).filter(title == tool.title, id != ...).first()
duplicate_of(p, title, id) == first({r \in Visible(p) : r.title = title /\ r.id # id})

\* the columns the UPDATE sets: the attributes whose value setattr changed
Dirty(record, dump) == {f \in WritableFields : record[f] # dump[f]}

\* an update that stores a new object in place of the record
setattr_new_object(row, dump, fields) == OnboardingTool(row.id, dump, row.created_at)

setattr(row, dump, fields) ==
    [row EXCEPT !.title = IF "title" \in fields THEN dump.title ELSE @,
                !.description = IF "description" \in fields THEN dump.description ELSE @,
                !.category = IF "category" \in fields THEN dump.category ELSE @,
                !.status = IF "status" \in fields THEN dump.status ELSE @,
                !.sort_order = IF "sort_order" \in fields THEN dump.sort_order ELSE @,
                !.is_featured = IF "is_featured" \in fields THEN dump.is_featured ELSE @]

\* the workers whose uncommitted rows worker p's UPDATE has to wait for
UpdateWaitsFor(p) ==
    IF "title" \in Dirty(local[p].record[1], call[p].tool)
    THEN WaitsFor(p, local[p].record[1].id, call[p].tool.title)
    ELSE {}

\* for key, value in tool.model_dump().items(): setattr(record, key, value)
\* db.commit(); db.refresh(record); return record
commit_update(p) ==
    LET record == local[p].record[1]
        dirty == Dirty(record, call[p].tool)
    IN /\ UpdateWaitsFor(p) = {}
       /\ IF dirty = {}
          THEN \* no UPDATE is emitted; the refresh fails if the row is gone
               /\ Finish(p, IF record.id \in DOMAIN tools THEN OK ELSE ServerError)
               /\ UNCHANGED tools
          ELSE IF record.id \notin DOMAIN tools
          THEN \* StaleDataError: the UPDATE matched no row
               /\ Finish(p, ServerError)
               /\ UNCHANGED tools
          ELSE IF "title" \in dirty /\ UniqueViolation(p, record.id, call[p].tool.title)
          THEN \* IntegrityError
               /\ Finish(p, ServerError)
               /\ UNCHANGED tools
          ELSE /\ tools' = [tools EXCEPT ![record.id] = setattr(@, call[p].tool, dirty)]
               /\ Finish(p, OK)
       /\ UNCHANGED <<teams, next_team_id, next_id, tool_access, now, call, snap>>

update_tool_request(p, bodies) ==
    \E id \in 1..MaxId, raw \in bodies :
        IF ToolBase_valid(raw)
        THEN Accept(p, [op |-> "update_tool", tool_id |-> id, body |-> raw,
                        tool |-> model_dump(raw)], "update_lookup")
        ELSE Answer(p, [op |-> "update_tool", tool_id |-> id, body |-> raw], Unprocessable)

\* record = db.query(OnboardingTool).filter(id == tool_id).first()
update_tool_lookup(p) ==
    /\ pc[p] = "update_lookup"
    /\ LET record == first({r \in Visible(p) : r.id = call[p].tool_id})
       IN IF record = None
          THEN Finish(p, ToolNotFound)
          ELSE Goto(p, "update_check", [local[p] EXCEPT !.record = record])
    /\ UNCHANGED <<teams, next_team_id, tools, next_id, tool_access, now, call, snap>>

\* duplicate = ...; if duplicate: raise
update_tool_check(p) ==
    /\ pc[p] = "update_check"
    /\ LET duplicate == duplicate_of(p, call[p].tool.title, call[p].tool_id)
       IN IF duplicate # None
          THEN Finish(p, TitleMustBeUnique)
          ELSE Goto(p, "update_commit", local[p])
    /\ UNCHANGED <<teams, next_team_id, tools, next_id, tool_access, now, call, snap>>

update_tool_commit(p) ==
    /\ pc[p] = "update_commit"
    /\ commit_update(p)

PathTitles == {TitleA, TitleB}

update_tool_by_title_request(p, bodies) ==
    \E title \in PathTitles, raw \in bodies :
        IF ToolBase_valid(raw)
        THEN Accept(p, [op |-> "update_tool_by_title", title |-> title, body |-> raw,
                        tool |-> model_dump(raw)], "by_title_lookup")
        ELSE Answer(p, [op |-> "update_tool_by_title", title |-> title, body |-> raw],
                    Unprocessable)

\* record = db.query(OnboardingTool).filter(title == title).first()
update_tool_by_title_lookup(p) ==
    /\ pc[p] = "by_title_lookup"
    /\ LET record == first({r \in Visible(p) : r.title = call[p].title})
       IN IF record = None
          THEN Finish(p, ToolNotFound)
          ELSE Goto(p, "by_title_check", [local[p] EXCEPT !.record = record])
    /\ UNCHANGED <<teams, next_team_id, tools, next_id, tool_access, now, call, snap>>

\* duplicate = ...; if duplicate: raise
update_tool_by_title_check(p) ==
    /\ pc[p] = "by_title_check"
    /\ LET duplicate == duplicate_of(p, call[p].tool.title, local[p].record[1].id)
       IN IF duplicate # None
          THEN Finish(p, TitleMustBeUnique)
          ELSE Goto(p, "by_title_commit", local[p])
    /\ UNCHANGED <<teams, next_team_id, tools, next_id, tool_access, now, call, snap>>

update_tool_by_title_commit(p) ==
    /\ pc[p] = "by_title_commit"
    /\ commit_update(p)

-----------------------------------------------------------------------------
(* DELETE /tools/{tool_id} *)

delete_tool_request(p) ==
    \E id \in 1..MaxId :
        Accept(p, [op |-> "delete_tool", tool_id |-> id], "delete_lookup")

\* record = db.query(OnboardingTool).filter(id == tool_id).first()
delete_tool_lookup(p) ==
    /\ pc[p] = "delete_lookup"
    /\ LET record == first({r \in Visible(p) : r.id = call[p].tool_id})
       IN IF record = None
          THEN Finish(p, ToolNotFound)
          ELSE Goto(p, "delete_commit", [local[p] EXCEPT !.record = record])
    /\ UNCHANGED <<teams, next_team_id, tools, next_id, tool_access, now, call, snap>>

\* a delete that only marks the record
delete_soft(table, id) == table

\* db.delete(record): DELETE FROM onboarding_tools WHERE id = ...
delete(table, id) == [i \in DOMAIN table \ {id} |-> table[i]]

\* a tool_access table whose tool_id is a foreign key with ON DELETE CASCADE
tool_access_after_delete_cascade(id) ==
    SelectSeq(tool_access, LAMBDA e : e.tool_id # id)

\* ToolAccess.tool_id is a plain Integer column: the events of a deleted
\* tool stay
tool_access_after_delete(id) == tool_access

\* db.delete(record); db.commit(). A DELETE that matches no row, because
\* another request deleted it meanwhile, only warns.
delete_tool_commit(p) ==
    /\ pc[p] = "delete_commit"
    /\ tools' = delete(tools, local[p].record[1].id)
    /\ tool_access' = tool_access_after_delete(local[p].record[1].id)
    /\ Finish(p, OK)
    /\ UNCHANGED <<teams, next_team_id, next_id, now, call, snap>>

-----------------------------------------------------------------------------
(* POST /tools/{tool_id}/logo/upload and POST /tools/{tool_id}/logo/import *)

\* multipart files a client may upload
Files ==
    { [content_type |-> Some(ImagePng), data |-> "logo1"],
      [content_type |-> Some(TextHtml), data |-> "logo1"],
      [content_type |-> None, data |-> "logo1"] }

\* what the GET of the logo URL may return
Responses ==
    { [status_code |-> 200, content_type |-> Some(ImageGif), content |-> "logo2"],
      [status_code |-> 200, content_type |-> Some(TextHtml), content |-> "logo2"],
      [status_code |-> 200, content_type |-> None, content |-> "logo2"],
      [status_code |-> 404, content_type |-> Some(ImageGif), content |-> "logo2"],
      [status_code |-> 404, content_type |-> Some(TextHtml), content |-> "logo2"] }

LogoMustBeImageFile == HTTPException(400, <<"Logo must be an image file.">>)
UnableToFetch == HTTPException(400, <<"Unable to fetch logo URL.">>)
LogoUrlMustBeImage == HTTPException(400, <<"Logo URL must be an image.">>)

\* record.logo_data = ...; record.logo_content_type = ...; db.commit()
\* The UPDATE sets the columns whose value changed and is not emitted when
\* none did.
commit_logo(p) ==
    LET record == local[p].record[1]
        logo == local[p].logo[1]
        data == Some(logo.data)
        content_type == Some(logo.content_type)
    IN /\ IF record.logo_data = data /\ record.logo_content_type = content_type
          THEN /\ Finish(p, OK)
               /\ UNCHANGED tools
          ELSE IF record.id \notin DOMAIN tools
          THEN \* StaleDataError: the UPDATE matched no row
               /\ Finish(p, ServerError)
               /\ UNCHANGED tools
          ELSE /\ tools' = [tools EXCEPT
                     ![record.id].logo_data =
                         IF record.logo_data = data THEN @ ELSE data,
                     ![record.id].logo_content_type =
                         IF record.logo_content_type = content_type THEN @ ELSE content_type]
               /\ Finish(p, OK)
       /\ UNCHANGED <<teams, next_team_id, next_id, tool_access, now, call, snap>>

upload_logo_request(p) ==
    \E id \in 1..MaxId, file \in Files :
        Accept(p, [op |-> "upload_logo", tool_id |-> id, file |-> file], "upload_lookup")

\* record = db.query(...).first(); the two raises; file.file.read()
upload_logo_lookup(p) ==
    /\ pc[p] = "upload_lookup"
    /\ LET record == first({r \in Visible(p) : r.id = call[p].tool_id})
           file == call[p].file
       IN IF record = None
          THEN Finish(p, ToolNotFound)
          ELSE IF \/ file.content_type = None
                  \/ file.content_type[1] = <<>>
                  \/ ~startswith(file.content_type[1], ImagePrefix)
          THEN Finish(p, LogoMustBeImageFile)
          ELSE Goto(p, "upload_commit",
                    [local[p] EXCEPT !.record = record,
                                     !.logo = Some([data |-> file.data,
                                                    content_type |-> file.content_type[1]])])
    /\ UNCHANGED <<teams, next_team_id, tools, next_id, tool_access, now, call, snap>>

upload_logo_commit(p) ==
    /\ pc[p] = "upload_commit"
    /\ commit_logo(p)

import_logo_request(p) ==
    \E id \in 1..MaxId :
        Accept(p, [op |-> "import_logo", tool_id |-> id], "import_lookup")

\* record = db.query(...).first(); then client.get(url) is sent
import_logo_lookup(p) ==
    /\ pc[p] = "import_lookup"
    /\ LET record == first({r \in Visible(p) : r.id = call[p].tool_id})
       IN IF record = None
          THEN Finish(p, ToolNotFound)
          ELSE Goto(p, "import_fetch", [local[p] EXCEPT !.record = record])
    /\ UNCHANGED <<teams, next_team_id, tools, next_id, tool_access, now, call, snap>>

\* response.headers.get("content-type", "")
header_content_type(response) ==
    IF response.content_type = None THEN <<>> ELSE response.content_type[1]

\* client.get(url) returns a response, or raises (a timeout, a refused
\* connection)
import_logo_fetch(p) ==
    /\ pc[p] = "import_fetch"
    /\ \/ Finish(p, ServerError)
       \/ \E response \in Responses :
            Goto(p, "import_check", [local[p] EXCEPT !.response = Some(response)])
    /\ UNCHANGED <<teams, next_team_id, tools, next_id, tool_access, now, call, snap>>

\* a handler that looks at the content type only
fetch_error_ignores_status(response) ==
    IF ~startswith(header_content_type(response), ImagePrefix)
    THEN Some(LogoUrlMustBeImage)
    ELSE None

\* the two raises after the fetch: None, or the exception raised
fetch_error(response) ==
    IF response.status_code # 200
    THEN Some(UnableToFetch)
    ELSE IF ~startswith(header_content_type(response), ImagePrefix)
    THEN Some(LogoUrlMustBeImage)
    ELSE None

\* the checks of the response; record.logo_data = response.content;
\* record.logo_content_type = content_type
import_logo_check(p) ==
    /\ pc[p] = "import_check"
    /\ LET response == local[p].response[1]
       IN IF fetch_error(response) # None
          THEN Finish(p, fetch_error(response)[1])
          ELSE Goto(p, "import_commit",
                    [local[p] EXCEPT !.logo =
                        Some([data |-> response.content,
                              content_type |-> header_content_type(response)])])
    /\ UNCHANGED <<teams, next_team_id, tools, next_id, tool_access, now, call, snap>>

import_logo_commit(p) ==
    /\ pc[p] = "import_commit"
    /\ commit_logo(p)

-----------------------------------------------------------------------------
(* POST /teams and PUT /teams/{team_id} *)

\* JSON bodies a client may send for a team
RawTeamPayloads ==
    { [name |-> <<"a">>],
      [name |-> <<"b">>],
      [name |-> <<" ", "a">>],
      [name |-> <<" ">>],
      [name |-> <<>>],
      [description |-> <<"d">>] }

\* TeamBase: whether pydantic accepts the body; name is a plain "str" field
\* with no validator
TeamBase_valid(raw) == "name" \in DOMAIN raw

\* TeamBase(...).model_dump()
team_dump(raw) ==
    [ name |-> raw.name,
      description |-> IF "description" \in DOMAIN raw THEN Some(raw.description) ELSE None ]

\* Team(**team.model_dump()) as the INSERT stores it
Team(id, dump) == [id |-> id, name |-> dump.name, description |-> dump.description]

TeamNotFound == HTTPException(404, <<"Team not found.">>)
TeamNameMustBeUnique == HTTPException(400, <<"Team name must be unique.">>)

create_team_request(p) ==
    \E raw \in RawTeamPayloads :
        IF TeamBase_valid(raw)
        THEN Accept(p, [op |-> "create_team", body |-> raw, team |-> team_dump(raw)],
                    "team_create_check")
        ELSE Answer(p, [op |-> "create_team", body |-> raw], Unprocessable)

\* existing = db.query(Team).filter(Team.name == team.name).first()
create_team_check(p) ==
    /\ pc[p] = "team_create_check"
    /\ LET existing == first({r \in Rows(teams) : r.name = call[p].team.name})
       IN IF existing # None
          THEN Finish(p, TeamNameMustBeUnique)
          ELSE Goto(p, "team_create_commit", local[p])
    /\ UNCHANGED <<teams, next_team_id, tools, next_id, tool_access, now, call, snap>>

\* db.add(record); db.commit(); db.refresh(record); return record
create_team_commit(p) ==
    /\ pc[p] = "team_create_commit"
    /\ next_team_id <= MaxId
    /\ next_team_id' = next_team_id + 1
    /\ IF \E r \in Rows(teams) : r.name = call[p].team.name
       THEN /\ Finish(p, ServerError)
            /\ UNCHANGED teams
       ELSE /\ teams' = (next_team_id :> Team(next_team_id, call[p].team)) @@ teams
            /\ Finish(p, OK)
    /\ UNCHANGED <<tools, next_id, tool_access, now, call, snap>>

update_team_request(p) ==
    \E id \in 1..MaxId, raw \in RawTeamPayloads :
        IF TeamBase_valid(raw)
        THEN Accept(p, [op |-> "update_team", team_id |-> id, body |-> raw,
                        team |-> team_dump(raw)], "team_update_lookup")
        ELSE Answer(p, [op |-> "update_team", team_id |-> id, body |-> raw], Unprocessable)

\* record = db.query(Team).filter(Team.id == team_id).first()
update_team_lookup(p) ==
    /\ pc[p] = "team_update_lookup"
    /\ LET record == first({r \in Rows(teams) : r.id = call[p].team_id})
       IN IF record = None
          THEN Finish(p, TeamNotFound)
          ELSE Goto(p, "team_update_check", [local[p] EXCEPT !.record = record])
    /\ UNCHANGED <<teams, next_team_id, tools, next_id, tool_access, now, call, snap>>

\* duplicate = db.query(Team).filter(Team.name == team.name,
\*                                   Team.id != team_id).first()
update_team_check(p) ==
    /\ pc[p] = "team_update_check"
    /\ LET duplicate == first({r \in Rows(teams) :
                                  r.name = call[p].team.name /\ r.id # call[p].team_id})
       IN IF duplicate # None
          THEN Finish(p, TeamNameMustBeUnique)
          ELSE Goto(p, "team_update_commit", local[p])
    /\ UNCHANGED <<teams, next_team_id, tools, next_id, tool_access, now, call, snap>>

\* for key, value in team.model_dump().items(): setattr(record, key, value);
\* db.commit(); db.refresh(record); return record
update_team_commit(p) ==
    /\ pc[p] = "team_update_commit"
    /\ LET id == call[p].team_id
       IN IF id \notin DOMAIN teams
          THEN /\ Finish(p, ServerError)
               /\ UNCHANGED teams
          ELSE /\ teams' = [teams EXCEPT ![id] = Team(id, call[p].team)]
               /\ Finish(p, OK)
    /\ UNCHANGED <<next_team_id, tools, next_id, tool_access, now, call, snap>>

-----------------------------------------------------------------------------
(* POST /tool_access *)

ActionLiterals == {"open_tool", "view_modal"}

\* the id of no stored tool: the sequence starts at 1
UnknownToolId == 0

RawEvents ==
    { [tool_id |-> 1, tool_title |-> TitleA, action |-> "view_modal"],
      [tool_id |-> 1, tool_title |-> TitleA, action |-> "open_tool"],
      [tool_id |-> UnknownToolId, tool_title |-> TitleB, action |-> "open_tool"],
      [tool_id |-> 1, tool_title |-> TitleA, action |-> "close_tool"] }

\* a schema whose action is any string
ToolAccessCreate_valid_any_action(raw) ==
    {"tool_id", "tool_title", "action"} \subseteq DOMAIN raw

\* ToolAccessCreate: whether pydantic accepts the body
ToolAccessCreate_valid(raw) ==
    /\ {"tool_id", "tool_title", "action"} \subseteq DOMAIN raw
    /\ raw.action \in ActionLiterals

\* ToolAccess(**event.model_dump()) as the INSERT stores it
ToolAccess(id, raw, timestamp) ==
    [ id |-> id,
      tool_id |-> raw.tool_id,
      tool_title |-> raw.tool_title,
      action |-> raw.action,
      timestamp |-> timestamp ]

\* record = ToolAccess(...); db.add(record); db.commit(); db.refresh(record)
create_access_event(p) ==
    \E raw \in RawEvents :
        IF ToolAccessCreate_valid(raw)
        THEN /\ Len(tool_access) < MaxEvents
             /\ pc[p] = "idle"
             /\ tool_access' = Append(tool_access, ToolAccess(Len(tool_access) + 1, raw, now))
             /\ pc' = [pc EXCEPT ![p] = "done"]
             /\ call' = [call EXCEPT ![p] = [op |-> "create_access_event", event |-> raw]]
             /\ resp' = [resp EXCEPT ![p] = OK]
             /\ snap' = IF p = Client THEN tools ELSE snap
             /\ UNCHANGED <<teams, next_team_id, tools, next_id, now, local, txn>>
        ELSE Answer(p, [op |-> "create_access_event", event |-> raw], Unprocessable)

-----------------------------------------------------------------------------
(* GET /analytics *)

TopLimit == 10
RecentLimit == 20

\* the rows of table tool_access
Events == {tool_access[i] : i \in DOMAIN tool_access}

\* db.query(func.count(ToolAccess.id)).filter(ToolAccess.action == action)
\* .scalar() or 0
count_action(action) == Cardinality({e \in Events : e.action = action})

\* .limit(n)
limit_unlimited(rows, n) == rows

limit(rows, n) == SubSeq(rows, 1, IF Len(rows) < n THEN Len(rows) ELSE n)

\* .group_by(ToolAccess.tool_title) with func.count(ToolAccess.id); "first" is
\* the id of the group's oldest row, the place of the group in a scan
group_by_tool_title ==
    { [ tool_title |-> t,
        count |-> Cardinality({e \in Events : e.tool_title = t}),
        first |-> CHOOSE i \in DOMAIN tool_access :
                     /\ tool_access[i].tool_title = t
                     /\ \A j \in 1..(i - 1) : tool_access[j].tool_title # t ]
      : t \in {e.tool_title : e \in Events} }

\* the server returns rows that tie in the ORDER BY key in the order its plan
\* met them: a forward or a backward scan
in_scan(i, j, backward) == IF backward THEN i > j ELSE i < j

\* group_by(tool_title).order_by(count desc).limit(10), as the list of dicts
\* the handler builds
top_tools(backward) ==
    LET groups == group_by_tool_title
        before == {gh \in groups \X groups :
                      \/ gh[1].count > gh[2].count
                      \/ gh[1].count = gh[2].count /\ in_scan(gh[1].first, gh[2].first, backward)}
        rows == limit(order_by(groups, before), TopLimit)
    IN [i \in DOMAIN rows |-> [tool_title |-> rows[i].tool_title, count |-> rows[i].count]]

\* order_by(timestamp desc).limit(20)
recent_activity(backward) ==
    LET before == {ef \in Events \X Events :
                      \/ ef[1].timestamp > ef[2].timestamp
                      \/ ef[1].timestamp = ef[2].timestamp /\ in_scan(ef[1].id, ef[2].id, backward)}
    IN limit(order_by(Events, before), RecentLimit)

analytics_request(p) == Accept(p, [op |-> "analytics"], "analytics_total")

\* total_interactions = db.query(func.count(ToolAccess.id)).scalar() or 0
analytics_total(p) ==
    /\ pc[p] = "analytics_total"
    /\ Goto(p, "analytics_views", [total_interactions |-> Cardinality(Events)] @@ local[p])
    /\ UNCHANGED <<teams, next_team_id, tools, next_id, tool_access, now, call, snap>>

analytics_views(p) ==
    /\ pc[p] = "analytics_views"
    /\ Goto(p, "analytics_opens", [total_views |-> count_action("view_modal")] @@ local[p])
    /\ UNCHANGED <<teams, next_team_id, tools, next_id, tool_access, now, call, snap>>

analytics_opens(p) ==
    /\ pc[p] = "analytics_opens"
    /\ Goto(p, "analytics_top", [total_opens |-> count_action("open_tool")] @@ local[p])
    /\ UNCHANGED <<teams, next_team_id, tools, next_id, tool_access, now, call, snap>>

analytics_top_tools(p) ==
    /\ pc[p] = "analytics_top"
    /\ \E backward \in BOOLEAN :
          Goto(p, "analytics_recent", [top_tools |-> top_tools(backward)] @@ local[p])
    /\ UNCHANGED <<teams, next_team_id, tools, next_id, tool_access, now, call, snap>>

\* the last query; return AnalyticsSummary(...)
analytics_recent_activity(p) ==
    /\ pc[p] = "analytics_recent"
    /\ \E backward \in BOOLEAN :
          Finish(p, JSON([total_interactions |-> local[p].total_interactions,
                          total_views |-> local[p].total_views,
                          total_opens |-> local[p].total_opens,
                          top_tools |-> local[p].top_tools,
                          recent_activity |-> recent_activity(backward)]))
    /\ UNCHANGED <<teams, next_team_id, tools, next_id, tool_access, now, call, snap>>

-----------------------------------------------------------------------------
(* PostgreSQL's deadlock detector *)

\* the workers whose uncommitted rows worker p's next statement waits for
Awaits(p) ==
    CASE pc[p] = "create_commit" -> WaitsFor(p, next_id, call[p].tool.title)
      [] pc[p] = "bulk_loop" -> PendingWaitsFor(p)
      [] pc[p] \in {"update_commit", "by_title_commit"} -> UpdateWaitsFor(p)
      [] OTHER -> {}

\* two transactions wait for each other: the server aborts one of them,
\* whose statement raises an error no handler catches
deadlock_detected(p) ==
    /\ \E q \in Awaits(p) : p \in Awaits(q)
    /\ Finish(p, ServerError)
    /\ UNCHANGED <<teams, next_team_id, tools, next_id, tool_access, now, call, snap>>

-----------------------------------------------------------------------------
(* the client reads the response; time passes *)

respond(p) ==
    /\ pc[p] = "done"
    /\ pc' = [pc EXCEPT ![p] = "idle"]
    /\ call' = [call EXCEPT ![p] = NoCall]
    /\ resp' = [resp EXCEPT ![p] = NoResp]
    /\ snap' = IF p = Client THEN <<>> ELSE snap
    /\ UNCHANGED <<teams, next_team_id, tools, next_id, tool_access, now, local, txn>>

tick ==
    /\ now < MaxClock
    /\ now' = now + 1
    /\ UNCHANGED <<teams, next_team_id, tools, next_id, tool_access, pc, call, local, txn, resp, snap>>

-----------------------------------------------------------------------------
(* The API served to one client that sends its requests one after the other *)

Next ==
    \/ tick
    \/ create_tool_request(Client, RawToolPayloads)
    \/ create_tool_check(Client)
    \/ create_tool_commit(Client)
    \/ bulk_create_tools_request(Client, RawBulkItems)
    \/ bulk_create_tools_loop(Client)
    \/ bulk_create_tools_commit(Client)
    \/ get_tool(Client)
    \/ update_tool_request(Client, RawToolPayloads)
    \/ update_tool_lookup(Client)
    \/ update_tool_check(Client)
    \/ update_tool_commit(Client)
    \/ update_tool_by_title_request(Client, RawToolPayloads)
    \/ update_tool_by_title_lookup(Client)
    \/ update_tool_by_title_check(Client)
    \/ update_tool_by_title_commit(Client)
    \/ delete_tool_request(Client)
    \/ delete_tool_lookup(Client)
    \/ delete_tool_commit(Client)
    \/ upload_logo_request(Client)
    \/ upload_logo_lookup(Client)
    \/ upload_logo_commit(Client)
    \/ import_logo_request(Client)
    \/ import_logo_lookup(Client)
    \/ import_logo_fetch(Client)
    \/ import_logo_check(Client)
    \/ import_logo_commit(Client)
    \/ respond(Client)

Spec == Init /\ [][Next]_vars

-----------------------------------------------------------------------------
(* The access-event log next to the tool writes, for one client *)

NextAccess ==
    \/ tick
    \/ create_access_event(Client)
    \/ create_tool_request(Client, PlainBodies)
    \/ create_tool_check(Client)
    \/ create_tool_commit(Client)
    \/ update_tool_request(Client, PlainBodies)
    \/ update_tool_lookup(Client)
    \/ update_tool_check(Client)
    \/ update_tool_commit(Client)
    \/ delete_tool_request(Client)
    \/ delete_tool_lookup(Client)
    \/ delete_tool_commit(Client)
    \/ respond(Client)

SpecAccess == Init /\ [][NextAccess]_vars

-----------------------------------------------------------------------------
(* The tool writes of several clients, their statements interleaved *)

NextConcurrent ==
    \E p \in Procs :
        \/ create_tool_request(p, PlainBodies)
        \/ create_tool_check(p)
        \/ create_tool_commit(p)
        \/ bulk_create_tools_request(p, PlainBodies)
        \/ bulk_create_tools_loop(p)
        \/ bulk_create_tools_commit(p)
        \/ update_tool_request(p, PlainBodies)
        \/ update_tool_lookup(p)
        \/ update_tool_check(p)
        \/ update_tool_commit(p)
        \/ update_tool_by_title_request(p, PlainBodies)
        \/ update_tool_by_title_lookup(p)
        \/ update_tool_by_title_check(p)
        \/ update_tool_by_title_commit(p)
        \/ delete_tool_request(p)
        \/ delete_tool_lookup(p)
        \/ delete_tool_commit(p)
        \/ deadlock_detected(p)
        \/ respond(p)

SpecConcurrent == Init /\ [][NextConcurrent]_vars

-----------------------------------------------------------------------------
(* Two clients that each send one POST /tools, starting from the empty table *)

NextRace ==
    \E p \in Procs :
        \/ create_tool_request(p, RawToolPayloads)
        \/ create_tool_check(p)
        \/ create_tool_commit(p)

SpecRace == Init /\ [][NextRace]_vars

-----------------------------------------------------------------------------
(* The analytics summary next to the event log and the tool writes, for one *)
(* client                                                                   *)

NextAnalytics ==
    \/ tick
    \/ create_access_event(Client)
    \/ create_tool_request(Client, PlainBodies)
    \/ create_tool_check(Client)
    \/ create_tool_commit(Client)
    \/ delete_tool_request(Client)
    \/ delete_tool_lookup(Client)
    \/ delete_tool_commit(Client)
    \/ analytics_request(Client)
    \/ analytics_total(Client)
    \/ analytics_views(Client)
    \/ analytics_opens(Client)
    \/ analytics_top_tools(Client)
    \/ analytics_recent_activity(Client)
    \/ respond(Client)

SpecAnalytics == Init /\ [][NextAnalytics]_vars

-----------------------------------------------------------------------------
(* The listing of a catalog that earlier requests have filled *)

\* tools that creates and updates have stored; the first three are A, B and
\* C of the listing example
ListedTools ==
    { [id |-> 1, title |-> <<"a">>, description |-> None, category |-> <<"C">>, status |-> "Active",
       sort_order |-> 1, is_featured |-> FALSE],
      [id |-> 2, title |-> <<"b">>, description |-> None, category |-> <<"c", "d">>, status |-> "Planned",
       sort_order |-> 5, is_featured |-> TRUE],
      [id |-> 3, title |-> <<"c">>, description |-> None, category |-> <<"C">>, status |-> "Active",
       sort_order |-> 2, is_featured |-> TRUE],
      [id |-> 4, title |-> <<"a", "b">>, description |-> None, category |-> <<"c", "d">>, status |-> "Active",
       sort_order |-> 2, is_featured |-> TRUE],
      [id |-> 5, title |-> <<"B", "_">>, description |-> None, category |-> <<"C">>, status |-> "Deprecated",
       sort_order |-> 1, is_featured |-> FALSE] }

\* the tables left when some of them have been deleted again
InitList ==
    /\ \E kept \in SUBSET ListedTools :
          /\ tools = [id \in {r.id : r \in kept} |->
                        LET r == CHOOSE x \in kept : x.id = id
                        IN OnboardingTool(id, r, 0)]
          /\ next_id = Cardinality(ListedTools) + 1
    /\ tool_access = <<>>
    /\ teams = <<>>
    /\ next_team_id = 1
    /\ now = 0
    /\ pc = [p \in Workers |-> "idle"]
    /\ call = [p \in Workers |-> NoCall]
    /\ local = [p \in Workers |-> NoLocal]
    /\ txn = [p \in Workers |-> None]
    /\ resp = [p \in Workers |-> NoResp]
    /\ snap = <<>>

NextList ==
    \/ list_tools(Client)
    \/ respond(Client)

SpecList == InitList /\ [][NextList]_vars

-----------------------------------------------------------------------------
(* The creates and updates of tools and teams, for one client *)

NextTeams ==
    \/ create_tool_request(Client, RawToolPayloads)
    \/ create_tool_check(Client)
    \/ create_tool_commit(Client)
    \/ update_tool_request(Client, RawToolPayloads)
    \/ update_tool_lookup(Client)
    \/ update_tool_check(Client)
    \/ update_tool_commit(Client)
    \/ create_team_request(Client)
    \/ create_team_check(Client)
    \/ create_team_commit(Client)
    \/ update_team_request(Client)
    \/ update_team_lookup(Client)
    \/ update_team_check(Client)
    \/ update_team_commit(Client)
    \/ respond(Client)

SpecTeams == Init /\ [][NextTeams]_vars

-----------------------------------------------------------------------------
(* The analytics summary of an event log that earlier requests have filled *)

MaxTitles == 11

Letters == <<"a", "b", "c", "d", "e", "f", "g", "h", "i", "j", "k", "l", "m", "n">>

\* the k-th of the tool titles the events name
EventTitle(k) == <<Letters[k]>>

\* the log after one event for each of the first k titles and then a second
\* event for the titles in twice, views and opens taking turns
EventLog(k, twice) ==
    LET second == order_by(twice, {ij \in twice \X twice : ij[1] < ij[2]})
        number == [i \in 1..(k + Len(second)) |-> IF i <= k THEN i ELSE second[i - k]]
    IN [i \in DOMAIN number |->
          ToolAccess(i, [tool_id |-> number[i],
                         tool_title |-> EventTitle(number[i]),
                         action |-> IF i % 2 = 1 THEN "view_modal" ELSE "open_tool"], 0)]

InitTop ==
    /\ \E k \in 0..MaxTitles : \E twice \in SUBSET (1..k) :
          tool_access = EventLog(k, twice)
    /\ tools = <<>>
    /\ next_id = 1
    /\ teams = <<>>
    /\ next_team_id = 1
    /\ now = 0
    /\ pc = [p \in Workers |-> "idle"]
    /\ call = [p \in Workers |-> NoCall]
    /\ local = [p \in Workers |-> NoLocal]
    /\ txn = [p \in Workers |-> None]
    /\ resp = [p \in Workers |-> NoResp]
    /\ snap = <<>>

NextTop ==
    \/ analytics_request(Client)
    \/ analytics_total(Client)
    \/ analytics_views(Client)
    \/ analytics_opens(Client)
    \/ analytics_top_tools(Client)
    \/ analytics_recent_activity(Client)
    \/ respond(Client)

SpecTop == InitTop /\ [][NextTop]_vars

-----------------------------------------------------------------------------
(* The creates and updates of tools that have a description, for one client *)

\* <script>alert(1)</script><p>ok</p>
ScriptAndParagraph ==
    <<"<", "s", "c", "r", "i", "p", "t", ">", "a", "l", "e", "r", "t", "(", "1", ")",
       "<", "/", "s", "c", "r", "i", "p", "t", ">", "<", "p", ">", "o", "k", "<", "/", "p", ">">>

\* <p>ok</p>
Paragraph == <<"<", "p", ">", "o", "k", "<", "/", "p", ">">>

Descriptions ==
    { ScriptAndParagraph,
      Paragraph,
      <<"<", "b", ">", "o", "k", "<", "/", "b", ">">>,
      <<"<", "h", "1", ">", "a", "<", "/", "h", "1", ">", "<", "i", ">", "b", "<", "/", "i", ">">>,
      <<"1", " ", "<", " ", "2", " ", ">", " ", "1">>,
      <<"a", " ", "&", " ", "b", " ", "&", "l", "t", ";", " ", "c">>,
      <<>> }

DescribedBodies ==
    {[title |-> t, category |-> CatC, description |-> d] :
        t \in {TitleA, TitleB}, d \in Descriptions}
    \cup PlainBodies

NextSanitize ==
    \/ create_tool_request(Client, DescribedBodies)
    \/ create_tool_check(Client)
    \/ create_tool_commit(Client)
    \/ update_tool_request(Client, DescribedBodies)
    \/ update_tool_lookup(Client)
    \/ update_tool_check(Client)
    \/ update_tool_commit(Client)
    \/ respond(Client)

SpecSanitize == Init /\ [][NextSanitize]_vars

-----------------------------------------------------------------------------
(* Properties *)

Titles(table) == {table[i].title : i \in DOMAIN table}

\* the observed client's request op has been answered
Done(op) == pc[Client] = "done" /\ call[Client].op = op

\* ... and its body had passed validation
Handled(op) == Done(op) /\ resp[Client].status # 422

\* C1: in every state reachable by any interleaving of create, bulk create,
\* update, update by title and delete requests, no two stored tools have the
\* same title.
C1_TitlesUnique ==
    \A i, j \in DOMAIN tools : tools[i].title = tools[j].title => i = j

\* the unique index has refused the INSERT of a create that lost the race
C1_Witness ==
    \E p \in Procs :
        /\ pc[p] = "done"
        /\ call[p].op = "create_tool"
        /\ resp[p].status = 500
        /\ call[p].tool.title \in Titles(tools)

\* C2: of two POST /tools with the same title, sent concurrently when no tool
\* has that title, exactly one succeeds and the other fails with the
\* Conflict error (400) of the pre-check.
C2_OneSuccessOneConflict ==
    \A p, q \in Procs :
        ( /\ p # q
          /\ pc[p] = "done" /\ pc[q] = "done"
          /\ resp[p].status # 422 /\ resp[q].status # 422
          /\ call[p].tool.title = call[q].tool.title )
        => \/ resp[p].status = 200 /\ resp[q] = [status |-> 400, detail |-> <<"Title must be unique.">>]
           \/ resp[q].status = 200 /\ resp[p] = [status |-> 400, detail |-> <<"Title must be unique.">>]

\* the elements of a batch whose title is stored or repeats an earlier element
Offending(batch, table) ==
    {i \in DOMAIN batch :
        \/ batch[i].title \in Titles(table)
        \/ \E j \in 1..(i - 1) : batch[j].title = batch[i].title}

FirstOffending(batch, table) ==
    CHOOSE i \in Offending(batch, table) : \A j \in Offending(batch, table) : i <= j

\* C3: a bulk create with an element whose title is already stored fails
\* with 400, the detail names the first offending title, and the stored
\* tools are those stored before the request.
C3_BulkAllOrNothing ==
    Handled("bulk_create_tools") =>
        LET batch == call[Client].tools
        IN (\E i \in DOMAIN batch : batch[i].title \in Titles(snap)) =>
              /\ resp[Client].status = 400
              /\ resp[Client].detail =
                    <<"Title already exists: ", batch[FirstOffending(batch, snap)].title>>
              /\ tools = snap

\* a valid element precedes the stored title in the rejected batch
C3_Witness ==
    /\ Handled("bulk_create_tools")
    /\ Len(call[Client].tools) = 2
    /\ call[Client].tools[1].title \notin Titles(snap)
    /\ call[Client].tools[2].title \in Titles(snap)
    /\ resp[Client].status = 400
    /\ tools = snap

\* C4: a bulk create whose batch holds two elements with the same title is
\* rejected as a whole and persists no row.
C4_BatchDuplicatesRejected ==
    Handled("bulk_create_tools") =>
        LET batch == call[Client].tools
        IN (\E i, j \in DOMAIN batch : i < j /\ batch[i].title = batch[j].title) =>
              /\ resp[Client].status = 400
              /\ tools = snap

\* the repeated title is in the batch twice and not in the store
C4_Witness ==
    /\ Handled("bulk_create_tools")
    /\ Len(call[Client].tools) = 2
    /\ call[Client].tools[1].title = call[Client].tools[2].title
    /\ call[Client].tools[1].title \notin Titles(snap)
    /\ resp[Client].status = 400
    /\ tools = snap

UpdateOps == {"update_tool", "update_tool_by_title"}

\* the record an update request addresses, in a table
Target(table) ==
    IF call[Client].op = "update_tool"
    THEN {r \in Rows(table) : r.id = call[Client].tool_id}
    ELSE {r \in Rows(table) : r.title = call[Client].title}

\* C5: an update (by id or by title) fails with 404 when its target does not
\* exist, with 400 when the payload title is the title of another record,
\* and succeeds otherwise, also when the payload title is the target's own;
\* a 404 or 400 changes no stored record.
C5_UpdateOutcome ==
    \A op \in UpdateOps :
        Handled(op) =>
            /\ resp[Client] =
                 IF Target(snap) = {}
                 THEN [status |-> 404, detail |-> <<"Tool not found.">>]
                 ELSE IF \E t \in Target(snap), r \in Rows(snap) :
                            r.id # t.id /\ r.title = call[Client].tool.title
                 THEN [status |-> 400, detail |-> <<"Title must be unique.">>]
                 ELSE [status |-> 200, detail |-> <<>>]
            /\ resp[Client].status \in {404, 400} => tools = snap

\* an update that keeps the target's own title succeeds next to another tool
C5_Witness ==
    /\ Handled("update_tool")
    /\ Cardinality(DOMAIN snap) = 2
    /\ \E t \in Target(snap) : t.title = call[Client].tool.title
    /\ resp[Client].status = 200

\* ToolBase: the defaults of the fields a body may omit
SchemaDefault(f) ==
    CASE f = "status" -> "Active"
      [] f = "sort_order" -> 0
      [] f = "is_featured" -> FALSE

\* C6: after a successful update every writable field of the target is the
\* payload's (trimmed) value or, when the body omitted it, the schema
\* default; the target's id, created_at and logo are unchanged and so is
\* every other record.
C6_FullReplace ==
    \A op \in UpdateOps :
        (Handled(op) /\ resp[Client].status = 200) =>
            \E t \in Target(snap) :
                LET body == call[Client].body
                IN /\ DOMAIN tools = DOMAIN snap
                   /\ tools[t.id].title = strip(body.title)
                   /\ tools[t.id].category = strip(body.category)
                   /\ \A f \in {"status", "sort_order", "is_featured"} :
                        tools[t.id][f] = IF f \in DOMAIN body THEN body[f] ELSE SchemaDefault(f)
                   /\ tools[t.id].id = t.id
                   /\ tools[t.id].created_at = t.created_at
                   /\ tools[t.id].logo_data = t.logo_data
                   /\ tools[t.id].logo_content_type = t.logo_content_type
                   /\ \A j \in DOMAIN snap \ {t.id} : tools[j] = snap[j]

\* the body omits fields that the target, which has a logo, held at other
\* values than the defaults
C6_Witness ==
    /\ Handled("update_tool")
    /\ resp[Client].status = 200
    /\ Cardinality(DOMAIN snap) = 2
    /\ DOMAIN call[Client].body = {"title", "category"}
    /\ \E t \in Target(snap) :
        /\ t.status = "Planned" /\ t.sort_order = 1 /\ t.is_featured
        /\ t.logo_data # None
        /\ tools[t.id].sort_order = 0

C7_Answers ==
    /\ (Done("delete_tool") \/ Done("get_tool")) =>
          (call[Client].tool_id \notin DOMAIN snap =>
              /\ resp[Client] = [status |-> 404, detail |-> <<"Tool not found.">>]
              /\ tools = snap)
    /\ Done("get_tool") =>
          (call[Client].tool_id \in DOMAIN snap => resp[Client].status = 200)
    /\ (Done("delete_tool") /\ resp[Client].status = 200) =>
          call[Client].tool_id \notin DOMAIN tools

C7_OnlyCreateAdds ==
    \A id \in 1..MaxId :
        (id \notin DOMAIN tools /\ id \in DOMAIN tools') =>
            call[Client].op \in {"create_tool", "bulk_create_tools"}

\* C7: a delete (or get) of an id that is not stored answers 404 and changes
\* nothing; after a successful delete the id is not stored, and an id that
\* is not stored stays so until a create stores it.
C7_HardDelete == []C7_Answers /\ [][C7_OnlyCreateAdds]_vars

\* a delete has removed a stored record
C7_Witness ==
    /\ Done("delete_tool")
    /\ resp[Client].status = 200
    /\ call[Client].tool_id \in DOMAIN snap
    /\ call[Client].tool_id \notin DOMAIN tools

\* the response fetched is not a 200 with an image content type
BadResponse(response) ==
    \/ response.status_code # 200
    \/ ~startswith(header_content_type(response), ImagePrefix)

C8_Failure ==
    (Done("import_logo") /\ resp[Client].status # 200) => tools = snap

C8_Step ==
    call[Client].op = "import_logo" =>
        /\ ( /\ pc[Client] = "import_check"
             /\ pc'[Client] # "import_check"
             /\ BadResponse(local[Client].response[1]) )
           => /\ pc'[Client] = "done"
              /\ resp'[Client].status = 400
              /\ tools' = tools
        /\ tools' # tools =>
              /\ pc[Client] = "import_commit"
              /\ ~BadResponse(local[Client].response[1])
              /\ tools' = [tools EXCEPT
                    ![call[Client].tool_id].logo_data =
                        Some(local[Client].response[1].content),
                    ![call[Client].tool_id].logo_content_type =
                        Some(header_content_type(local[Client].response[1]))]

\* C8: a logo import whose response is not a 200 with an "image/" content
\* type fails with 400; every failed import leaves the stored logo as it
\* was; only a 200 with an image content type overwrites it.
C8_ImportLogo == []C8_Failure /\ [][C8_Step]_vars

\* an import has failed with 400 for a tool that had a logo
C8_Witness ==
    /\ Done("import_logo")
    /\ resp[Client].status = 400
    /\ call[Client].tool_id \in DOMAIN snap
    /\ snap[call[Client].tool_id].logo_data # None
    /\ tools = snap

\* C9: while a logo import waits for the fetch, its session holds no open
\* transaction.
C9_NoTransactionDuringFetch ==
    pc[Client] = "import_fetch" => txn[Client] = None

C10_Recorded ==
    (Done("create_access_event") /\ ToolAccessCreate_valid(call[Client].event)) =>
        /\ resp[Client].status = 200
        /\ tool_access # <<>>
        /\ LET e == tool_access[Len(tool_access)]
           IN /\ e.tool_id = call[Client].event.tool_id
              /\ e.tool_title = call[Client].event.tool_title
              /\ e.action = call[Client].event.action

C10_Kept ==
    /\ Len(tool_access') >= Len(tool_access)
    /\ \A i \in 1..Len(tool_access) : tool_access'[i] = tool_access[i]

\* C10: the access-event log is append-only: no operation removes an event
\* or changes a field of one, also not the delete or the rename of the tool
\* it refers to; an event is recorded whether or not its tool_id is stored.
C10_AppendOnly == []C10_Recorded /\ [][C10_Kept]_vars

\* the tool of the first event has been deleted after the event was
\* recorded, and the second event names an id that was never stored
C10_Witness ==
    /\ Done("delete_tool")
    /\ resp[Client].status = 200
    /\ Len(tool_access) = 2
    /\ tool_access[1].tool_id = call[Client].tool_id
    /\ tool_access[1].tool_id \in DOMAIN snap
    /\ tool_access[1].tool_id \notin DOMAIN tools
    /\ tool_access[2].tool_id = UnknownToolId

\* the number of recorded events with an action
Recorded(action) ==
    Cardinality({i \in DOMAIN tool_access : tool_access[i].action = action})

C11_Summary ==
    Done("analytics") =>
        LET body == resp[Client].body
        IN /\ body.total_interactions = Len(tool_access)
           /\ body.total_views = Recorded("view_modal")
           /\ body.total_opens = Recorded("open_tool")
           /\ body.total_interactions = body.total_views + body.total_opens

C11_Step ==
    tool_access' # tool_access =>
        /\ Len(tool_access') = Len(tool_access) + 1
        /\ \/ /\ Recorded("view_modal")' = Recorded("view_modal") + 1
              /\ Recorded("open_tool")' = Recorded("open_tool")
           \/ /\ Recorded("view_modal")' = Recorded("view_modal")
              /\ Recorded("open_tool")' = Recorded("open_tool") + 1

\* C11: the analytics summary returns as total_interactions the number of
\* events recorded so far, as total_views those with action view_modal and as
\* total_opens those with action open_tool; every recorded event adds one to
\* the total and one to exactly one of the two others, so that
\* total_interactions = total_views + total_opens.
C11_SummaryCounts == []C11_Summary /\ [][C11_Step]_vars

\* the summary counts one view and one open
C11_Witness ==
    /\ Done("analytics")
    /\ resp[Client].body.total_interactions = 2
    /\ resp[Client].body.total_views = 1
    /\ resp[Client].body.total_opens = 1

\* x is not after y under (is_featured descending, sort_order ascending,
\* title ascending)
NotAfter(x, y) ==
    \/ x.is_featured /\ ~y.is_featured
    \/ /\ x.is_featured = y.is_featured
       /\ \/ x.sort_order < y.sort_order
          \/ /\ x.sort_order = y.sort_order
             /\ ~str_lt(y.title, x.title)

\* C12: of any two adjacent tools of a listing the earlier one is not after
\* the later one under (is_featured descending, sort_order ascending, title
\* ascending).
C12_ListOrdered ==
    Done("list_tools") =>
        LET body == resp[Client].body
        IN \A i \in 1..(Len(body) - 1) : NotAfter(body[i], body[i + 1])

\* A(feat=false, sort=1), B(feat=true, sort=5), C(feat=true, sort=2) are
\* listed as C, B, A
C12_Witness ==
    /\ Done("list_tools")
    /\ DOMAIN snap = {1, 2, 3}
    /\ call[Client].search = None /\ call[Client].category = None
    /\ call[Client].status = None
    /\ [i \in DOMAIN resp[Client].body |-> resp[Client].body[i].id] = <<3, 2, 1>>

\* sub occurs in s as a literal substring
contains(s, sub) ==
    \E i \in 0..(Len(s) - Len(sub)) : SubSeq(s, i + 1, i + Len(sub)) = sub

\* C13: a listing returns exactly the stored tools for which (search is
\* absent or occurs, without regard to case, as a literal substring of the
\* title or of the category) and (category is absent or equals the tool's)
\* and (status is absent or equals the tool's), for every search string,
\* also one with the characters % or _.
C13_ListFilter ==
    Done("list_tools") =>
        LET c == call[Client]
            body == resp[Client].body
        IN /\ {body[i] : i \in DOMAIN body} =
                {r \in Rows(snap) :
                    /\ c.search # None =>
                          \/ contains(lower(r.title), lower(c.search[1]))
                          \/ contains(lower(r.category), lower(c.search[1]))
                    /\ c.category # None => r.category = c.category[1]
                    /\ c.status # None => r.status = c.status[1]}
           /\ \A i, j \in DOMAIN body : body[i] = body[j] => i = j

\* a required-text value as the claim wants it stored
Normalised(value) == value # <<>> /\ value = strip(value)

\* the required-text fields that a body lacks or holds blank
Blank(body, fields) ==
    {f \in fields : f \notin DOMAIN body \/ strip(body[f]) = <<>>}

C14_Stored ==
    /\ \A i \in DOMAIN tools : Normalised(tools[i].title) /\ Normalised(tools[i].category)
    /\ \A i \in DOMAIN teams : Normalised(teams[i].name)

C14_Rejected ==
    /\ \A op \in {"create_tool", "update_tool"} :
          (Done(op) /\ Blank(call[Client].body, {"title", "category"}) # {}) =>
              resp[Client].status = 422
    /\ \A op \in {"create_team", "update_team"} :
          (Done(op) /\ Blank(call[Client].body, {"name"}) # {}) =>
              resp[Client].status = 422

C14_Unchanged ==
    (pc'[Client] = "done" /\ resp'[Client].status = 422) =>
        (tools' = tools /\ teams' = teams)

\* C14: creates and updates store the tool title, the tool category and the
\* team name trimmed, and reject with a validation error, changing nothing, a
\* body in which one of them is blank; no stored title, category or team name
\* is empty or has leading or trailing whitespace.
C14_RequiredText == [](C14_Stored /\ C14_Rejected) /\ [][C14_Unchanged]_vars

\* the number of recorded events with a title
Named(title) ==
    Cardinality({i \in DOMAIN tool_access : tool_access[i].tool_title = title})

\* C15: the top tools of the summary are at most 10 entries, one for each of
\* as many distinct event titles, each with the number of events of its
\* title, in non-increasing order of that number, and no title left out has
\* more events than a title that is in.
C15_TopTools ==
    Done("analytics") =>
        LET top == resp[Client].body.top_tools
            included == {top[i].tool_title : i \in DOMAIN top}
            omitted == {tool_access[i].tool_title : i \in DOMAIN tool_access} \ included
        IN /\ Len(top) <= 10
           /\ \A i, j \in DOMAIN top : top[i].tool_title = top[j].tool_title => i = j
           /\ \A i \in DOMAIN top : top[i].count = Named(top[i].tool_title) /\ top[i].count > 0
           /\ \A i \in 1..(Len(top) - 1) : top[i].count >= top[i + 1].count
           /\ \A t \in omitted, u \in included : Named(t) <= Named(u)

\* of eleven titles the one left out has fewer events than some title that
\* is in, and ties with another one that is in
C15_Witness ==
    /\ Done("analytics")
    /\ LET top == resp[Client].body.top_tools
           included == {top[i].tool_title : i \in DOMAIN top}
           omitted == {tool_access[i].tool_title : i \in DOMAIN tool_access} \ included
       IN /\ Len(top) = 10
          /\ \E t \in omitted :
                /\ \E u \in included : Named(t) < Named(u)
                /\ \E u \in included : Named(t) = Named(u)

\* the tool a successful create or update has written
Written ==
    {r \in Rows(tools) : r.title = call[Client].tool.title}

C16_Example ==
    \A op \in {"create_tool", "update_tool"} :
        ( /\ Handled(op)
          /\ resp[Client].status = 200
          /\ "description" \in DOMAIN call[Client].body
          /\ call[Client].body.description = ScriptAndParagraph )
        => \A r \in Written : r.description = Some(Paragraph)

C16_Idempotent ==
    \A i \in DOMAIN tools :
        sanitize_description(tools[i].description) = tools[i].description

\* C16: the description <script>alert(1)</script><p>ok</p> is stored as
\* exactly <p>ok</p>, and sanitizing a stored (already sanitized) description
\* returns it unchanged.
C16_Sanitize == C16_Example /\ C16_Idempotent

====
